---- MODULE Spec2Model ----
(***************************************************************************)
(* Hard-mode Wordle player (HardModeWordlePlayer.py) as a state machine.   *)
(* A word is a sequence of one-letter strings, a response a sequence of    *)
(* the digit characters "0" (absent), "1" (misplaced), "2" (correct).      *)
(***************************************************************************)
EXTENDS Naturals, Sequences, FiniteSets

\* wordle.k: the word length the game object is built with.
K == 5

\* Python's None / empty string: no target given, no first guess given, or an
\* empty line typed at the prompt.
NoWord == <<>>

crane == <<"c", "r", "a", "n", "e">>
speed == <<"s", "p", "e", "e", "d">>
never == <<"n", "e", "v", "e", "r">>
erase == <<"e", "r", "a", "s", "e">>
geese == <<"g", "e", "e", "s", "e">>
goose == <<"g", "o", "o", "s", "e">>
audio == <<"a", "u", "d", "i", "o">>
geest == <<"g", "e", "e", "s", "t">>

\* The word lists get_words may hand to Wordle(5, words): the lines of the
\* file in file order. The lines are appended as read, so a repeated line
\* stays repeated.
WordLists == { <<crane, speed, never, erase>>,
               <<geese, goose, geese>> }

\* Words a caller or the prompt may supply that need not be in the list.
Pool == {crane, speed, never, erase, geese, goose, audio}

\* The targets play() is called with: a word, listed or not, or None.
Targets == Pool \cup {geest, NoWord}

Digits == {"0", "1", "2"}

\* Every response code of length K.
Codes == [1..K -> Digits]

ToSet(s) == {s[j] : j \in DOMAIN s}

\* Python's `x in seq`.
In(x, s) == \E j \in DOMAIN s : s[j] = x

\* Python's seq.count(x).
Count(x, s) == Cardinality({j \in DOMAIN s : s[j] = x})

(***************************************************************************)
(* Wordle.response_to_guess / Wordle.is_correct_response (Wordle.py is not *)
(* among the sources; the two-pass rule is taken from the specification).  *)
(***************************************************************************)

\* Target occurrences of letter c that the first pass did not match.
UnmatchedInTarget(c, guess, tgt) ==
    Cardinality({j \in DOMAIN tgt : tgt[j] = c /\ guess[j] # c})

\* Earlier, not exactly matched guess positions holding the letter of i: each
\* of them consumed one unmatched target occurrence, if one was left.
EarlierUnmatched(i, guess, tgt) ==
    Cardinality({j \in 1..(i - 1) : guess[j] = guess[i] /\ guess[j] # tgt[j]})

response_to_guess(guess, tgt) ==
    [i \in 1..Len(guess) |->
        IF guess[i] = tgt[i] THEN "2"
        ELSE IF EarlierUnmatched(i, guess, tgt) < UnmatchedInTarget(guess[i], guess, tgt)
             THEN "1"
             ELSE "0"]

is_correct_response(response) == \A i \in DOMAIN response : response[i] = "2"

\* The two passes walk through the letters of the target: for None in the
\* place of the target they raise TypeError instead of answering.
OracleRaises(tgt) == tgt = NoWord

(***************************************************************************)
(* HardModeWordlePlayer.adjust_candidates                                  *)
(***************************************************************************)

\* char_occurrences[char]: occurrences of char in the guess.
char_occurrences(guess, char) == Count(char, guess)

\* Variant: the answer "0" counts as well.
CountedPositions_any_answer(guess, response) ==
    {i \in DOMAIN guess :
        response[i] \in {"0", "1", "2"} /\ char_occurrences(guess, guess[i]) > 1}

\* Positions of the guess answered "1" or "2" whose letter is repeated in the
\* guess; each adds one to the letter's required count.
CountedPositions(guess, response) ==
    {i \in DOMAIN guess :
        response[i] \in {"1", "2"} /\ char_occurrences(guess, guess[i]) > 1}

\* Variant: every occurrence of a repeated letter is counted, whatever its
\* answer.
char_required_count_occurrences(guess, response) ==
    [char \in {guess[i] : i \in CountedPositions(guess, response)} |->
        char_occurrences(guess, char)]

\* char_required_count: a dictionary whose keys are the letters counted above.
char_required_count(guess, response) ==
    [char \in {guess[i] : i \in CountedPositions(guess, response)} |->
        Cardinality({i \in CountedPositions(guess, response) : guess[i] = char})]

\* Variant: a "0" removes the letter without looking at its other occurrences.
valid_for_removal_unconditional(guess, response, i) == TRUE

\* valid_for_removal for the "0" at position i: no occurrence of the letter
\* in the guess was answered "2" or "1".
valid_for_removal(guess, response, i) ==
    \A index \in DOMAIN guess :
        guess[index] = guess[i] => ~(response[index] = "2" \/ response[index] = "1")

\* The test one position of the response applies to one candidate.
KeepAt(i, guess, response, cand) ==
    IF response[i] = "2" THEN cand[i] = guess[i]
    ELSE IF response[i] = "1" THEN In(guess[i], cand) /\ cand[i] # guess[i]
    ELSE IF response[i] = "0"
         THEN (valid_for_removal(guess, response, i) => ~In(guess[i], cand))
         ELSE TRUE

\* The loop over the positions of the response, from position i on.
RECURSIVE FilterPositions(_, _, _, _)
FilterPositions(i, guess, response, cands) ==
    IF i > Len(response) THEN cands
    ELSE FilterPositions(i + 1, guess, response,
             SelectSeq(cands, LAMBDA cand : KeepAt(i, guess, response, cand)))

meets_required_counts(candidate, required) ==
    \A char \in DOMAIN required : ~(Count(char, candidate) < required[char])

\* list.remove(x): drops the first element equal to x.
RECURSIVE ListRemove(_, _)
ListRemove(s, x) ==
    IF s = <<>> THEN <<>>
    ELSE IF Head(s) = x THEN Tail(s)
    ELSE <<Head(s)>> \o ListRemove(Tail(s), x)

\* Lines 89-91: remove the original guess from the new candidates list.
RemoveGuess(new_candidates, guess) ==
    IF In(guess, new_candidates) THEN ListRemove(new_candidates, guess)
    ELSE new_candidates

\* Variant: the words meeting the required counts are added to the filtered
\* list instead of replacing it.
adjust_candidates_extending(guess, response, candidates) ==
    LET required  == char_required_count(guess, response)
        positions == FilterPositions(1, guess, response, candidates)
        counted   == SelectSeq(candidates,
                         LAMBDA cand : meets_required_counts(cand, required))
    IN  RemoveGuess(positions \o counted, guess)

adjust_candidates(guess, response, candidates) ==
    LET required  == char_required_count(guess, response)
        positions == FilterPositions(1, guess, response, candidates)
        counted   == SelectSeq(positions,
                         LAMBDA cand : meets_required_counts(cand, required))
    IN  RemoveGuess(counted, guess)

(***************************************************************************)
(* update_game_state, is_guess_valid                                       *)
(***************************************************************************)

\* Variant: the answer "0" records the letter as the answer "1" does.
RECURSIVE UpdateFrom_marking_absent(_, _, _, _)
UpdateFrom_marking_absent(i, guess, response, st) ==
    IF i > Len(guess) \/ i > Len(response) THEN st
    ELSE LET g == guess[i]
             r == response[i]
         IN  UpdateFrom_marking_absent(i + 1, guess, response,
                 IF r = "2"
                 THEN [st EXCEPT !.correct_positions[i] = g]
                 ELSE IF r \in {"0", "1"} /\ ~In(g, st.correct_positions)
                           /\ ~In(g, st.misplaced_letters)
                      THEN [st EXCEPT !.misplaced_letters = Append(@, g)]
                      ELSE st)

\* The loop of update_game_state from position i on; st holds the two lists.
RECURSIVE UpdateFrom(_, _, _, _)
UpdateFrom(i, guess, response, st) ==
    IF i > Len(guess) \/ i > Len(response) THEN st
    ELSE LET g == guess[i]
             r == response[i]
         IN  UpdateFrom(i + 1, guess, response,
                 IF r = "2"
                 THEN [st EXCEPT !.correct_positions[i] = g]
                 ELSE IF r = "1" /\ ~In(g, st.correct_positions)
                           /\ ~In(g, st.misplaced_letters)
                      THEN [st EXCEPT !.misplaced_letters = Append(@, g)]
                      ELSE st)

\* Variant: the misplaced letters of earlier calls are dropped.
update_game_state_forgetting(guess, response, cp, ml) ==
    UpdateFrom(1, guess, response,
               [correct_positions |-> cp, misplaced_letters |-> <<>>])

update_game_state(guess, response, cp, ml) ==
    UpdateFrom(1, guess, response,
               [correct_positions |-> cp, misplaced_letters |-> ml])

\* Variant: only the known positions are looked at.
is_guess_valid_positions_only(guess, cp, ml) ==
    \A i \in DOMAIN guess : ~(cp[i] # "" /\ guess[i] # cp[i])

is_guess_valid(guess, cp, ml) ==
    /\ \A i \in DOMAIN guess : ~(cp[i] # "" /\ guess[i] # cp[i])
    /\ \A j \in DOMAIN ml : In(ml[j], guess)

(***************************************************************************)
(* give_guess and generate_hard_mode_guess                                 *)
(***************************************************************************)

\* Variant: the words already tried are not left out.
valid_candidates_with_attempts(cands, atts, cp, ml) ==
    SelectSeq(cands, LAMBDA word : is_guess_valid(word, cp, ml))

\* generate_hard_mode_guess, line 202.
valid_candidates(cands, atts, cp, ml) ==
    SelectSeq(cands, LAMBDA word : is_guess_valid(word, cp, ml) /\ word \notin atts)

\* give_guess, lines 118-119: the words random.choice draws from.
AutoChoices(guess_words, history, cp, ml) ==
    {word \in ToSet(guess_words) \ history : is_guess_valid(word, cp, ml)}

\* Variant: a typed word is not looked up in the history.
TypedAccepted_any_listed(guess, wordlist, history) == In(guess, wordlist)

\* give_guess, line 113: a typed word that is taken as the guess.
TypedAccepted(guess, wordlist, history) ==
    In(guess, wordlist) /\ guess \notin history

\* The call of line 205 binds guess_words, history, fixed_guess and verbose by
\* keyword and gives nothing for the parameter candidates of give_guess
\* (line 101), which has no default: Python raises TypeError before the body
\* of give_guess runs.
Line205Binds == {"guess_words", "history", "fixed_guess", "verbose"}
GiveGuessRequires == {"guess_words", "candidates", "history"}
Line205RaisesTypeError == ~(GiveGuessRequires \subseteq Line205Binds)

(***************************************************************************)
(* The player object and one call of play() after another                  *)
(***************************************************************************)

VARIABLES
    words,              \* self.wordle.words
    correct_positions,  \* self.correct_positions
    misplaced_letters,  \* self.misplaced_letters
    pc,                 \* where play() stands
    target,             \* play's argument; NoWord: None
    first_guess,        \* play's argument; NoWord: none
    candidates,         \* play's local list
    attempts,           \* play's local set
    trace,              \* play's local list of <<guess, response>>
    num_guess,          \* play's local counter
    ret,                \* how the last call of play() ended
    previous,           \* how the call of play() before this one ended
    call                \* a method called directly (SpecFilter, SpecGuess)

vars == <<words, correct_positions, misplaced_letters, pc, target, first_guess,
          candidates, attempts, trace, num_guess, ret, previous, call>>

play_locals == <<pc, target, first_guess, candidates, attempts, trace,
                 num_guess, ret, previous>>

NoReturn == <<>>
NoCall == [pc |-> "none"]

\* [''] * self.wordle.k
EmptyPositions == [i \in 1..K |-> ""]

\* A new player on which play() has not been called.
NewPlayer ==
    /\ correct_positions = EmptyPositions
    /\ misplaced_letters = <<>>
    /\ pc = "idle"
    /\ target = NoWord
    /\ first_guess = NoWord
    /\ candidates = <<>>
    /\ attempts = {}
    /\ trace = <<>>
    /\ num_guess = 0
    /\ ret = NoReturn
    /\ previous = "none"

Init ==
    /\ words \in WordLists
    /\ NewPlayer
    /\ call = NoCall

\* get_response: what the oracle answers, for any target.
get_response(guess, tgt) == response_to_guess(guess, tgt)

\* How the call of play() that has just ended did end: by an exception, or
\* by the return after a winning response or after the last candidate went.
Ending ==
    IF pc = "idle" THEN "none"
    ELSE IF pc = "raised" THEN ret.raised
    ELSE IF ret.trace # <<>> /\ is_correct_response(ret.trace[Len(ret.trace)][2])
         THEN "won"
         ELSE "exhausted"

\* Variant: play() starts without calling reset().
Play_without_reset(tgt, fg) ==
    /\ pc \in {"idle", "returned", "raised"}
    /\ target' = tgt
    /\ first_guess' = fg
    /\ candidates' = words
    /\ attempts' = {}
    /\ trace' = <<>>
    /\ num_guess' = 0
    /\ ret' = NoReturn
    /\ previous' = Ending
    /\ pc' = IF Len(words) >= 1 THEN "loop" ELSE "exhausted"
    /\ UNCHANGED <<words, correct_positions, misplaced_letters, call>>

\* play(), lines 126-137: reset() and the locals, up to the first test of the
\* while condition.
Play(tgt, fg) ==
    /\ pc \in {"idle", "returned", "raised"}
    /\ correct_positions' = EmptyPositions
    /\ misplaced_letters' = <<>>
    /\ target' = tgt
    /\ first_guess' = fg
    /\ candidates' = words
    /\ attempts' = {}
    /\ trace' = <<>>
    /\ num_guess' = 0
    /\ ret' = NoReturn
    /\ previous' = Ending
    /\ pc' = IF Len(words) >= 1 THEN "loop" ELSE "exhausted"
    /\ UNCHANGED <<words, call>>

\* Variant: the state, the candidates and the attempts are updated after a
\* winning response as well.
Round_updating_always(guess) ==
    /\ ~OracleRaises(target)
    /\ LET response == get_response(guess, target)
           won == is_correct_response(response)
           st  == update_game_state(guess, response,
                                    correct_positions, misplaced_letters)
           new == adjust_candidates(guess, response, candidates)
       IN  /\ num_guess' = num_guess + 1
           /\ trace' = Append(trace, <<guess, response>>)
           /\ correct_positions' = st.correct_positions
           /\ misplaced_letters' = st.misplaced_letters
           /\ candidates' = new
           /\ attempts' = attempts \cup {guess}
           /\ pc' = IF won THEN "won"
                    ELSE IF Len(new) = 0 THEN "exhausted"
                    ELSE "loop"
           /\ UNCHANGED <<words, target, first_guess, ret, previous, call>>

\* Variant: the entry is appended to the trace under the test of line 159.
Round_tracing_after_test(guess) ==
    /\ ~OracleRaises(target)
    /\ LET response == get_response(guess, target)
           won == is_correct_response(response)
           st  == update_game_state(guess, response,
                                    correct_positions, misplaced_letters)
           new == adjust_candidates(guess, response, candidates)
       IN  /\ num_guess' = num_guess + 1
           /\ IF ~won
              THEN /\ trace' = Append(trace, <<guess, response>>)
                   /\ correct_positions' = st.correct_positions
                   /\ misplaced_letters' = st.misplaced_letters
                   /\ candidates' = new
                   /\ attempts' = attempts \cup {guess}
              ELSE UNCHANGED <<trace, correct_positions, misplaced_letters,
                               candidates, attempts>>
           /\ pc' = IF won THEN "won"
                    ELSE IF Len(new) = 0 THEN "exhausted"
                    ELSE "loop"
           /\ UNCHANGED <<words, target, first_guess, ret, previous, call>>

\* Lines 138 and 152-175: one pass of the loop body once the guess is picked.
Round(guess) ==
    /\ ~OracleRaises(target)
    /\ LET response == get_response(guess, target)
           won == is_correct_response(response)
           st  == update_game_state(guess, response,
                                    correct_positions, misplaced_letters)
           new == adjust_candidates(guess, response, candidates)
       IN  /\ num_guess' = num_guess + 1
           /\ trace' = Append(trace, <<guess, response>>)
           /\ IF ~won
              THEN /\ correct_positions' = st.correct_positions
                   /\ misplaced_letters' = st.misplaced_letters
                   /\ candidates' = new
                   /\ attempts' = attempts \cup {guess}
              ELSE UNCHANGED <<correct_positions, misplaced_letters,
                               candidates, attempts>>
           /\ pc' = IF won THEN "won"
                    ELSE IF Len(new) = 0 THEN "exhausted"
                    ELSE "loop"
           /\ UNCHANGED <<words, target, first_guess, ret, previous, call>>

\* Line 141: the first guess is the one the caller fixed.
UsesFirstGuess == num_guess = 0 /\ first_guess # NoWord

RoundFirstGuess ==
    /\ pc = "loop"
    /\ UsesFirstGuess
    /\ Round(first_guess)

\* An exception leaves play() in the pass that line 138 has already counted.
Raise(error) ==
    /\ num_guess' = num_guess + 1
    /\ pc' = "raised"
    /\ ret' = [raised |-> error]
    /\ UNCHANGED <<words, correct_positions, misplaced_letters, target,
                   first_guess, candidates, attempts, trace, previous, call>>

\* Line 153 with None as the target: the exception of the oracle passes
\* through get_response and leaves play().
RaiseFromOracle ==
    /\ pc = "loop"
    /\ UsesFirstGuess
    /\ OracleRaises(target)
    /\ Raise("TypeError")

\* generate_hard_mode_guess, lines 203-204: no valid candidate is left.
RaiseNoLegalGuess ==
    /\ pc = "loop"
    /\ ~UsesFirstGuess
    /\ valid_candidates(candidates, attempts,
                        correct_positions, misplaced_letters) = <<>>
    /\ Raise("ValueError")

\* generate_hard_mode_guess, lines 205-210: the call of give_guess.
RaiseTypeError ==
    /\ pc = "loop"
    /\ ~UsesFirstGuess
    /\ valid_candidates(candidates, attempts,
                        correct_positions, misplaced_letters) # <<>>
    /\ Line205RaisesTypeError
    /\ Raise("TypeError")

\* Lines 177-183: after the loop the lists are cleared and the count and the
\* trace returned.
Return ==
    /\ pc \in {"won", "exhausted"}
    /\ correct_positions' = EmptyPositions
    /\ misplaced_letters' = <<>>
    /\ ret' = [num_guess |-> num_guess, trace |-> trace]
    /\ pc' = "returned"
    /\ UNCHANGED <<words, target, first_guess, candidates, attempts, trace,
                   num_guess, previous, call>>

PlayAny == \E tgt \in Targets, fg \in Pool \cup {NoWord} : Play(tgt, fg)

Next ==
    \/ PlayAny
    \/ RoundFirstGuess
    \/ RaiseFromOracle
    \/ RaiseNoLegalGuess
    \/ RaiseTypeError
    \/ Return

Spec == Init /\ [][Next]_vars

(***************************************************************************)
(* adjust_candidates called directly: the arguments are any guess, any     *)
(* candidate list of at most MaxCands words, and a response that is what   *)
(* get_response gave for some target or any code the caller passes.        *)
(***************************************************************************)

MaxCands == 2

RECURSIVE SeqsUpTo(_, _)
SeqsUpTo(S, n) ==
    IF n = 0 THEN {<<>>}
    ELSE LET shorter == SeqsUpTo(S, n - 1)
         IN  shorter \cup {Append(s, x) : s \in shorter, x \in S}

CandLists == SeqsUpTo(Pool, MaxCands)

InitFilter ==
    /\ words = <<crane, speed, never, erase>>
    /\ NewPlayer
    /\ \E guess \in Pool, tgt \in Pool \cup {NoWord}, cands \in CandLists :
          call = [pc |-> "args", guess |-> guess, target |-> tgt,
                  candidates |-> cands, response |-> <<>>,
                  required |-> <<>>, result |-> <<>>]

\* The response argument is what get_response(guess, target) returned.
CallRespond ==
    /\ call.pc = "args"
    /\ call.target # NoWord
    /\ call' = [call EXCEPT !.pc = "ready",
                            !.response = get_response(call.guess, call.target)]
    /\ UNCHANGED <<words, correct_positions, misplaced_letters, play_locals>>

\* The response argument is a code the caller passes, no target involved.
CallWithCode ==
    /\ call.pc = "args"
    /\ call.target = NoWord
    /\ \E response \in Codes :
          call' = [call EXCEPT !.pc = "ready", !.response = response]
    /\ UNCHANGED <<words, correct_positions, misplaced_letters, play_locals>>

\* adjust_candidates(guess, response, candidates) runs; its argument list is
\* copied on entry (line 44) and stays as it was.
CallAdjust ==
    /\ call.pc = "ready"
    /\ call' = [call EXCEPT
                  !.pc = "done",
                  !.required = char_required_count(call.guess, call.response),
                  !.result = adjust_candidates(call.guess, call.response,
                                               call.candidates)]
    /\ UNCHANGED <<words, correct_positions, misplaced_letters, play_locals>>

NextFilter ==
    \/ CallRespond
    \/ CallWithCode
    \/ CallAdjust

SpecFilter == InitFilter /\ [][NextFilter]_vars

(***************************************************************************)
(* update_game_state and give_guess called directly on a player: at most   *)
(* MaxUpdates calls of update_game_state with responses of get_response,   *)
(* then one call of                                                        *)
(* give_guess(guess_words, candidates, history, fixed_guess) with the word *)
(* list as guess_words and candidates and the guesses of the updates as    *)
(* history.                                                                *)
(***************************************************************************)

MaxUpdates == 2

\* The responses passed with a guess here are those lines 153-160 pass: what
\* get_response gave for the guess against a word as target, unless it is the
\* winning response (line 159). The calls with any code at all are those of
\* SpecUpdate.
UpdateCodes(guess) ==
    {response \in {get_response(guess, t) : t \in Targets \ {NoWord}} :
        ~is_correct_response(response)}

HistoryOf(entries) == {entries[n][1] : n \in DOMAIN entries}

\* The fixed guesses passed to give_guess.
FixedGuesses == {speed, audio}

InitGuess ==
    /\ words \in WordLists
    /\ NewPlayer
    /\ call = [pc |-> "object", trace |-> <<>>, how |-> "", result |-> NoWord,
               valid |-> FALSE]

\* update_game_state(guess, response)
CallUpdateGameState ==
    /\ call.pc = "object"
    /\ Len(call.trace) < MaxUpdates
    /\ \E guess \in ToSet(words) : \E response \in UpdateCodes(guess) :
          LET st == update_game_state(guess, response,
                                      correct_positions, misplaced_letters)
          IN  /\ correct_positions' = st.correct_positions
              /\ misplaced_letters' = st.misplaced_letters
              /\ call' = [call EXCEPT !.trace = Append(@, <<guess, response>>)]
    /\ UNCHANGED <<words, play_locals>>

Given(how, guess) ==
    /\ call' = [call EXCEPT !.pc = "given", !.how = how, !.result = guess]
    /\ UNCHANGED <<words, correct_positions, misplaced_letters, play_locals>>

\* give_guess, lines 106-107: a fixed guess is returned as it is.
GiveFixedGuess ==
    /\ call.pc = "object"
    /\ \E fixed_guess \in FixedGuesses : Given("fixed", fixed_guess)

\* give_guess, lines 110-114: the prompt is answered with a word that is taken.
GiveTypedGuess ==
    /\ call.pc = "object"
    /\ \E typed \in Pool :
          /\ TypedAccepted(typed, words, HistoryOf(call.trace))
          /\ Given("typed", typed)

\* give_guess, lines 115-120: the prompt is answered with an empty line and
\* random.choice draws the guess.
GiveAutoGuess ==
    /\ call.pc = "object"
    /\ \E guess \in AutoChoices(words, HistoryOf(call.trace),
                                correct_positions, misplaced_letters) :
          Given("auto", guess)

\* give_guess, line 118: random.choice of an empty list raises IndexError.
GiveNothingToChoose ==
    /\ call.pc = "object"
    /\ AutoChoices(words, HistoryOf(call.trace),
                   correct_positions, misplaced_letters) = {}
    /\ call' = [call EXCEPT !.pc = "raised", !.how = "IndexError"]
    /\ UNCHANGED <<words, correct_positions, misplaced_letters, play_locals>>

\* give_guess, line 117: any other answer is refused and the prompt repeated.
GiveInvalidInput ==
    /\ call.pc = "object"
    /\ \E typed \in Pool : ~TypedAccepted(typed, words, HistoryOf(call.trace))
    /\ UNCHANGED vars

\* is_guess_valid(word), called on the player as it stands, a first time or
\* once more.
CallIsGuessValid ==
    /\ call.pc \in {"object", "checked"}
    /\ \E word \in Pool :
          call' = [call EXCEPT
                     !.pc = "checked", !.how = "is_guess_valid", !.result = word,
                     !.valid = is_guess_valid(word, correct_positions,
                                              misplaced_letters)]
    /\ UNCHANGED <<words, correct_positions, misplaced_letters, play_locals>>

NextGuess ==
    \/ CallUpdateGameState
    \/ CallIsGuessValid
    \/ GiveFixedGuess
    \/ GiveTypedGuess
    \/ GiveAutoGuess
    \/ GiveNothingToChoose
    \/ GiveInvalidInput

SpecGuess == InitGuess /\ [][NextGuess]_vars

(***************************************************************************)
(* update_game_state called directly with any guess of the list and any    *)
(* response code: at most MaxPrior calls that make the state the player is *)
(* in, then the call that is looked at.                                    *)
(***************************************************************************)

MaxPrior == 1

\* update_game_state(guess, response) on the player as it stands.
ApplyUpdate(guess, response) ==
    LET st == update_game_state(guess, response,
                                correct_positions, misplaced_letters)
    IN  /\ correct_positions' = st.correct_positions
        /\ misplaced_letters' = st.misplaced_letters

\* The call writes no letter over a different known letter (line 191).
KeepsKnown(guess, response) ==
    \A i \in 1..K :
        (response[i] = "2" /\ correct_positions[i] # "")
            => correct_positions[i] = guess[i]

InitUpdate ==
    /\ words = <<crane, speed, never, erase>>
    /\ NewPlayer
    /\ call = [pc |-> "object", prior |-> 0, guess |-> NoWord,
               response |-> <<>>, kept |-> TRUE]

\* An earlier call of update_game_state.
CallPriorUpdate ==
    /\ call.pc = "object"
    /\ call.prior < MaxPrior
    /\ \E guess \in ToSet(words) : \E response \in Codes :
          ApplyUpdate(guess, response)
    /\ call' = [call EXCEPT !.prior = @ + 1]
    /\ UNCHANGED <<words, play_locals>>

\* The call of update_game_state that is looked at.
CallUpdate ==
    /\ call.pc = "object"
    /\ \E guess \in ToSet(words) : \E response \in Codes :
          /\ ApplyUpdate(guess, response)
          /\ call' = [call EXCEPT !.pc = "updated", !.guess = guess,
                                  !.response = response,
                                  !.kept = KeepsKnown(guess, response)]
    /\ UNCHANGED <<words, play_locals>>

NextUpdate ==
    \/ CallPriorUpdate
    \/ CallUpdate

SpecUpdate == InitUpdate /\ [][NextUpdate]_vars

(***************************************************************************)
(* Properties                                                              *)
(***************************************************************************)

\* The game is played against a known target that is a word of the list.
TargetListed == target # NoWord /\ In(target, words)

GuessOf(entry) == entry[1]
ResponseOf(entry) == entry[2]

Marked(response, i) == response[i] \in {"1", "2"}

RECURSIVE IsSubsequence(_, _)
IsSubsequence(a, b) ==
    IF a = <<>> THEN TRUE
    ELSE IF b = <<>> THEN FALSE
    ELSE IF Head(a) = Head(b) THEN IsSubsequence(Tail(a), Tail(b))
    ELSE IsSubsequence(a, Tail(b))

\* C1: while a game against a listed target answered by the oracle has not
\* been won, the target is one of the candidates.
C1_TargetStaysCandidate ==
    (TargetListed /\ pc \in {"loop", "exhausted", "raised"})
        => In(target, candidates)

C1_Witness ==
    /\ pc = "loop"
    /\ TargetListed
    /\ num_guess = 1
    /\ Len(candidates) < Len(words) - 1
    /\ In(target, candidates)

\* C2 as stated: for every guess and target, adjust_candidates with the
\* oracle's response keeps the target in any candidate list that holds it.
C2_SoundForEveryPair ==
    (call.pc = "done" /\ call.target # NoWord
        /\ In(call.target, call.candidates))
        => In(call.target, call.result)

\* C2 amended: the same for every guess other than the target itself.
C2_SoundForOtherGuess ==
    (call.pc = "done" /\ call.target # NoWord /\ call.guess # call.target
        /\ In(call.target, call.candidates))
        => In(call.target, call.result)

C2_Witness ==
    /\ call.pc = "done"
    /\ call.target # NoWord
    /\ call.guess # call.target
    /\ In(call.target, call.candidates)
    /\ Len(call.result) < Len(call.candidates)
    /\ In(call.target, call.result)

\* C3: a game against a listed target answered by the oracle does not stop
\* exhausted and is not left by an exception: it can only end won.
C3_ListedTargetIsWon ==
    TargetListed => pc \notin {"exhausted", "raised"}

\* The guess g repeats, in place, each letter an entry marked "2" and
\* contains each letter an entry marked "1".
ObeysHardMode(g, entries) ==
    \A m \in DOMAIN entries : \A i \in 1..K :
        /\ ResponseOf(entries[m])[i] = "2" => g[i] = GuessOf(entries[m])[i]
        /\ ResponseOf(entries[m])[i] = "1" => In(GuessOf(entries[m])[i], g)

TraceObeysHardMode(entries) ==
    \A n \in DOMAIN entries :
        ObeysHardMode(GuessOf(entries[n]), SubSeq(entries, 1, n - 1))

\* C4: a guess picked after entries that obey hard mode among themselves
\* obeys hard mode against all of them, so that every guess after the first
\* does.
C4_HardModeOverTrace ==
    (call.pc = "given" /\ call.how # "fixed" /\ TraceObeysHardMode(call.trace))
        => ObeysHardMode(call.result, call.trace)

\* C5: while the game goes on, the oracle applied to any entry's guess and
\* any remaining candidate gives that entry's response.
C5_CandidatesConsistent ==
    pc = "loop" =>
        \A c \in DOMAIN candidates : \A n \in DOMAIN trace :
            response_to_guess(GuessOf(trace[n]), candidates[c])
                = ResponseOf(trace[n])

\* C6: a guess that give_guess picks is none of the words guessed before, so
\* the guesses made so far stay pairwise distinct when it is added.
C6_NoWordGuessedTwice ==
    (call.pc = "given" /\ call.how # "fixed")
        => call.result \notin HistoryOf(call.trace)

C6_Witness ==
    /\ call.pc = "given"
    /\ call.how = "typed"
    /\ Len(call.trace) = 2
    /\ GuessOf(call.trace[1]) # GuessOf(call.trace[2])
    /\ call.result \notin HistoryOf(call.trace)

\* C7: whatever the guess, the response and the candidate list, the guess is
\* not an element of what adjust_candidates returns.
C7_GuessNeverInResult ==
    call.pc = "done" => ~In(call.guess, call.result)

\* C8: what adjust_candidates returns is a sub-sequence of its candidate
\* list, the order kept: no word added, none repeated more often.
C8_ResultIsSubsequence ==
    call.pc = "done" => IsSubsequence(call.result, call.candidates)

C8_Witness ==
    /\ call.pc = "done"
    /\ Len(call.candidates) = 2
    /\ Len(call.result) = 1
    /\ call.result[1] = call.candidates[2]

\* The guess holds the letter twice and the known target holds it once.
TwoAgainstOne(letter) ==
    /\ call.target # NoWord
    /\ Count(letter, call.guess) = 2
    /\ Count(letter, call.target) = 1

\* One occurrence of the letter in the guess is answered "1" or "2", the
\* other "0", and the letter's required count is 1.
OneMarkedOneAbsent(letter) ==
    /\ Cardinality({i \in DOMAIN call.guess :
          call.guess[i] = letter /\ Marked(call.response, i)}) = 1
    /\ Cardinality({i \in DOMAIN call.guess :
          call.guess[i] = letter /\ call.response[i] = "0"}) = 1
    /\ letter \in DOMAIN call.required
    /\ call.required[letter] = 1

\* C9 as stated: "speed" against "erase", and any guess with two 'e' against
\* a target with one, gets one 'e' marked and one absent, required count 1.
C9_SpeedEraseAndTwoAgainstOne ==
    (call.pc = "done"
        /\ (TwoAgainstOne("e") \/ (call.guess = speed /\ call.target = erase)))
        => OneMarkedOneAbsent("e")

\* C9 amended: any guess with two 'e' against a target with one 'e' gets one
\* 'e' marked and one absent, and the required count of 'e' is 1.
C9_TwoAgainstOne ==
    (call.pc = "done" /\ TwoAgainstOne("e")) => OneMarkedOneAbsent("e")

C9_Witness ==
    /\ call.pc = "done"
    /\ call.guess = speed
    /\ call.target = crane
    /\ call.response = <<"0", "0", "1", "0", "0">>
    /\ call.required["e"] = 1

\* C10: a game against a word as target that has stopped has stopped won,
\* exhausted, or with the ValueError of an empty set of legal guesses.
C10_EndsWonExhaustedOrNoLegalGuess ==
    /\ pc \in {"loop", "won", "exhausted", "raised"} => num_guess <= Len(words) + 1
    /\ (pc = "raised" /\ target # NoWord) => ret.raised = "ValueError"

\* Some candidate is legal under the state of the player and was not tried.
LegalWordLeft ==
    \E j \in DOMAIN candidates :
        /\ \A i \in 1..K : correct_positions[i] # ""
              => candidates[j][i] = correct_positions[i]
        /\ \A letter \in ToSet(misplaced_letters) : In(letter, candidates[j])
        /\ candidates[j] \notin attempts

\* C11: the pick of a guess raises the ValueError of "no valid candidates"
\* exactly when no candidate is legal and untried; the game is then left in
\* that pass, with no entry added to the trace; and whenever that error is not
\* raised, the set give_guess would draw from is not empty.
C11_NoLegalGuessExactly ==
    pc = "raised" =>
        /\ (ret.raised = "ValueError") <=> ~LegalWordLeft
        /\ Len(trace) = num_guess - 1
        /\ ret.raised # "ValueError" =>
               AutoChoices(candidates, attempts,
                           correct_positions, misplaced_letters) # {}

C11_Witness ==
    /\ pc = "raised"
    /\ ret.raised = "ValueError"
    /\ candidates # <<>>
    /\ Len(trace) = 1
    /\ ~LegalWordLeft

\* The rules a response lays on a candidate, for the call in progress.
CorrectRule(cand) ==
    \A i \in 1..K : call.response[i] = "2" => cand[i] = call.guess[i]

MisplacedRule(cand) ==
    \A i \in 1..K : call.response[i] = "1"
        => (In(call.guess[i], cand) /\ cand[i] # call.guess[i])

\* Some occurrence of the letter in the guess is answered "1" or "2".
MarkedSomewhere(letter) ==
    \E j \in 1..K : call.guess[j] = letter /\ Marked(call.response, j)

AbsentRule(cand) ==
    \A i \in 1..K :
        (call.response[i] = "0" /\ ~MarkedSomewhere(call.guess[i]))
            => ~In(call.guess[i], cand)

CountRule(cand) ==
    \A letter \in ToSet(call.guess) :
        Count(letter, call.guess) > 1
            => Count(letter, cand) >=
                   Cardinality({i \in 1..K : call.guess[i] = letter
                                               /\ Marked(call.response, i)})

\* C12: what adjust_candidates returns is exactly the list of the candidates,
\* the guess left out, that meet every per-position rule (the rule of the
\* "2", of the "1" and of the "0") and the minimum count of each letter the
\* guess repeats.
C12_ExactlyTheRuleAbiding ==
    call.pc = "done" =>
        call.result = SelectSeq(call.candidates,
                          LAMBDA cand : /\ cand # call.guess
                                        /\ CorrectRule(cand)
                                        /\ MisplacedRule(cand)
                                        /\ AbsentRule(cand)
                                        /\ CountRule(cand))

\* The letter of position i is answered "0" there and "1" or "2" elsewhere.
MixedAt(i) == call.response[i] = "0" /\ MarkedSomewhere(call.guess[i])

\* C13: a "0" at position i removes the candidates holding guess[i] when no
\* occurrence of that letter in the guess is answered "1" or "2"; when one
\* is, the "0" removes nothing: a candidate holding the letter that is not
\* the guess and meets the other rules is returned.
C13_AbsentRule ==
    call.pc = "done" =>
        /\ \A i \in 1..K :
              (call.response[i] = "0" /\ ~MarkedSomewhere(call.guess[i]))
                  => \A r \in DOMAIN call.result :
                         ~In(call.guess[i], call.result[r])
        /\ \A i \in 1..K : \A c \in DOMAIN call.candidates :
              (/\ MixedAt(i)
               /\ In(call.guess[i], call.candidates[c])
               /\ call.candidates[c] # call.guess
               /\ CorrectRule(call.candidates[c])
               /\ MisplacedRule(call.candidates[c])
               /\ AbsentRule(call.candidates[c])
               /\ CountRule(call.candidates[c]))
                  => In(call.candidates[c], call.result)

C13_Witness ==
    /\ call.pc = "done"
    /\ Len(call.result) < Len(call.candidates)
    /\ \E i \in 1..K : \E r \in DOMAIN call.result :
          MixedAt(i) /\ In(call.guess[i], call.result[r])

\* The word repeats every known letter in its place.
KeepsKnownPositions(word, cp) ==
    \A i \in 1..K : cp[i] # "" => word[i] = cp[i]

\* The word holds every letter recorded as misplaced.
HoldsMisplaced(word, ml) ==
    \A letter \in ToSet(ml) : \E i \in 1..K : word[i] = letter

\* C14: is_guess_valid(word) answers true exactly when the word repeats every
\* known letter in its place and holds every misplaced letter, and the call
\* leaves correct_positions and misplaced_letters as they were, so that
\* asking again on the same state gives the same answer.
C14_IsGuessValidRules ==
    [][call'.pc = "checked" =>
          /\ call'.valid <=>
                 (/\ KeepsKnownPositions(call'.result, correct_positions)
                  /\ HoldsMisplaced(call'.result, misplaced_letters))
          /\ correct_positions' = correct_positions
          /\ misplaced_letters' = misplaced_letters]_vars

C14_Witness ==
    /\ call.pc = "checked"
    /\ ~call.valid
    /\ correct_positions # EmptyPositions
    /\ KeepsKnownPositions(call.result, correct_positions)
    /\ ~HoldsMisplaced(call.result, misplaced_letters)

\* No known letter is cleared or replaced and no misplaced letter is lost in
\* the step.
StateOnlyGrows ==
    /\ \A i \in 1..K :
          correct_positions[i] # "" => correct_positions'[i] = correct_positions[i]
    /\ ToSet(misplaced_letters) \subseteq ToSet(misplaced_letters')

\* Every response of the entries is the oracle's for one and the same word.
OneTarget(entries) ==
    \E t \in Targets \ {NoWord} : \A n \in DOMAIN entries :
        ResponseOf(entries[n]) = response_to_guess(GuessOf(entries[n]), t)

\* C15: over the updates of one game, whose responses are all the oracle's
\* for the target of the game, no update clears or replaces a known letter
\* of correct_positions or loses a letter of misplaced_letters.
C15_StateOnlyGrowsForOneTarget ==
    [][OneTarget(call'.trace) => StateOnlyGrows]_vars

C15_Witness ==
    /\ call.pc = "object"
    /\ Len(call.trace) = 2
    /\ OneTarget(call.trace)
    /\ GuessOf(call.trace[1]) # GuessOf(call.trace[2])
    /\ misplaced_letters # <<>>
    /\ \E i \in 1..K :
          /\ ResponseOf(call.trace[1])[i] = "2"
          /\ ResponseOf(call.trace[2])[i] # "2"
          /\ correct_positions[i] = GuessOf(call.trace[1])[i]

\* What update_game_state(guess, response) may do to the two lists: write
\* the letter of the guess at the positions answered "2" and nowhere else,
\* and append to misplaced_letters letters answered "1" that are no known
\* letter of any position of the state the call starts from; and the same
\* call made again changes nothing more.
UpdateFrame(guess, response) ==
    LET again == update_game_state(guess, response,
                                   correct_positions', misplaced_letters')
    IN  /\ \A i \in 1..K :
              correct_positions'[i] =
                  IF response[i] = "2" THEN guess[i] ELSE correct_positions[i]
        /\ Len(misplaced_letters') >= Len(misplaced_letters)
        /\ SubSeq(misplaced_letters', 1, Len(misplaced_letters))
               = misplaced_letters
        /\ \A n \in (Len(misplaced_letters) + 1)..Len(misplaced_letters') :
              /\ \E i \in 1..K : /\ guess[i] = misplaced_letters'[n]
                                 /\ response[i] = "1"
              /\ ~In(misplaced_letters'[n], correct_positions)
        /\ (\A i \in 1..K : response[i] = "0") =>
               UNCHANGED <<correct_positions, misplaced_letters>>
        /\ again.correct_positions = correct_positions'
        /\ again.misplaced_letters = misplaced_letters'

C17_WinningRoundFrame ==
    [][(pc = "loop" /\ pc' = "won") =>
          /\ Len(trace') = Len(trace) + 1
          /\ SubSeq(trace', 1, Len(trace)) = trace
          /\ is_correct_response(ResponseOf(trace'[Len(trace')]))
          /\ correct_positions' = correct_positions
          /\ misplaced_letters' = misplaced_letters
          /\ candidates' = candidates
          /\ attempts' = attempts]_vars

C17_Witness ==
    /\ pc = "won"
    /\ Len(trace) = 1
    /\ GuessOf(trace[1]) = target
    /\ In(target, candidates)
    /\ candidates = words
    /\ attempts = {}
    /\ correct_positions = EmptyPositions

\* The state a game starts from.
FreshGame ==
    /\ correct_positions = EmptyPositions
    /\ misplaced_letters = <<>>
    /\ attempts = {}
    /\ trace = <<>>
    /\ candidates = words

\* C18: every call of play() enters its loop with no known position, no
\* misplaced letter, no attempt, an empty trace and the whole word list as
\* candidates, however the call before it ended.
C18_EveryGameStartsFresh ==
    (pc = "loop" /\ num_guess = 0) => FreshGame

C18_Witness ==
    /\ pc = "loop"
    /\ num_guess = 0
    /\ previous = "ValueError"
    /\ FreshGame

\* C19: after a round that did not win, whatever the response was, every
\* remaining candidate passes is_guess_valid on the state of the player, the
\* words a guess would be drawn from are candidates, and a round whose guess
\* was a candidate has left fewer candidates than it found.
C19_CandidatesStayLegal ==
    (pc \in {"loop", "exhausted", "raised"} /\ Len(trace) = 1) =>
        /\ \A c \in DOMAIN candidates :
              is_guess_valid(candidates[c], correct_positions, misplaced_letters)
        /\ AutoChoices(candidates, attempts, correct_positions, misplaced_letters)
               \subseteq ToSet(candidates)
        /\ In(GuessOf(trace[1]), words) => Len(candidates) < Len(words)

C19_Witness ==
    /\ pc = "loop"
    /\ Len(trace) = 1
    /\ In(GuessOf(trace[1]), words)
    /\ correct_positions # EmptyPositions
    /\ misplaced_letters # <<>>
    /\ candidates # <<>>
    /\ \A c \in DOMAIN candidates :
          is_guess_valid(candidates[c], correct_positions, misplaced_letters)

\* C20: the count play() returns is the length of the trace it returns; a
\* step of the game changes the trace only by appending one entry; no entry
\* but the last is a winning one; and the last is a winning one exactly when
\* the loop was left won.
C20_ReturnedCountAndTrace ==
    /\ [](pc \in {"won", "exhausted"} =>
            /\ num_guess = Len(trace)
            /\ \A n \in 1..(Len(trace) - 1) :
                  ~is_correct_response(ResponseOf(trace[n]))
            /\ (pc = "won") <=>
                   (trace # <<>>
                      /\ is_correct_response(ResponseOf(trace[Len(trace)]))))
    /\ [](pc = "returned" => ret = [num_guess |-> Len(trace), trace |-> trace])
    /\ [][(pc = "loop" /\ trace' # trace) =>
             (Len(trace') = Len(trace) + 1
                /\ SubSeq(trace', 1, Len(trace)) = trace)]_vars

C20_Witness ==
    /\ pc = "returned"
    /\ previous # "none"
    /\ ret.num_guess = 1
    /\ Len(ret.trace) = 1
    /\ ~is_correct_response(ResponseOf(ret.trace[1]))

====
